---- MODULE Spec2Model ----
(***************************************************************************)
(* precip/get_data.py: for each filename of a fixed list, fetch the CSV    *)
(* at base_url/filename, parse it into a table and write the table as a    *)
(* gzip-compressed CSV to target_dir/filename.gz.                          *)
(*                                                                         *)
(* Strings are sequences of tokens, so that concatenation is \o.  A CSV    *)
(* text is a sequence of lines, a line a sequence of fields.  The target   *)
(* directory is a function from the paths of its files to their content.   *)
(***************************************************************************)
EXTENDS Integers, Sequences, FiniteSets, TLC

\* ------------------------------------------------------------- bounds
\* How many times the script is started in one behaviour.
MaxRuns == 2
\* The wall clock (seconds) runs from 0 to MaxClock.
MaxClock == 1

\* ------------------------------------------------- the script's literals
base_url == <<"https://www.ncei.noaa.gov/data/daily-summaries/access">>

target_dir == <<"C:/Users/16343/Desktop/Stats-504-materials/precip">>

files == << <<"USW00094847.csv">>, <<"USW00012839.csv">> >>

\* No exception raised.
None == "None"

\* The script's variables before their first assignment.
Unbound == <<>>
NoFrame == [columns |-> <<>>, index |-> <<>>, data |-> <<>>]

\* -------------------------------------------------------- pure functions
\* f"{base_url}/{f}"
\* (variant: the separator left out)
FormatUrlNoSlash(base, f) == base \o f
FormatUrl(base, f) == base \o <<"/">> \o f

\* The k-th item the for loop takes from a list.
\* (variants: the list taken backwards; the first item taken every time)
ItemReversed(list, k) == list[Len(list) + 1 - k]
ItemFirst(list, k) == list[1]
Item(list, k) == list[k]

\* os.path.join(dir, name): dir does not end in a separator and name is
\* relative, so the result is dir, the separator, name.
OsSep == "os.sep"
os_path_join(dir, name) == dir \o <<OsSep>> \o name

\* f + ".gz"
\* (variant: the suffix left out)
GzNameNoSuffix(f) == f
GzName(f) == f \o <<".gz">>

\* A short line is padded with missing values up to n fields.
Pad(row, n) == row \o [k \in 1..(n - Len(row)) |-> ""]

\* The number of fields the tokenizer expects on every data line: the
\* header's, or the first data line's when that one is longer.
Expected(body) ==
    IF Len(body) >= 2 /\ Len(body[2]) > Len(body[1])
    THEN Len(body[2]) ELSE Len(body[1])

\* pd.read_csv raises: EmptyDataError on an empty text, ParserError on a
\* data line with more fields than expected.
ParseFails(body) ==
    \/ body = <<>>
    \/ \E k \in 2..Len(body) : Len(body[k]) > Expected(body)

\* pd.read_csv(url) on a text that parses: the header line names the columns;
\* fields in excess of the header on the first data line are leading index
\* columns; every data line is padded to the expected width.
read_csv(body) ==
    LET n    == Expected(body)
        lead == n - Len(body[1])
        rows == [k \in 1..(Len(body) - 1) |-> Pad(body[k + 1], n)]
    IN  [columns |-> body[1],
         index   |-> [k \in 1..Len(rows) |-> SubSeq(rows[k], 1, lead)],
         data    |-> [k \in 1..Len(rows) |-> SubSeq(rows[k], lead + 1, n)]]

\* The text of df.to_csv(index=...): a header line, then one line per row;
\* with index=True every line starts with the index fields.
CsvLines(df, index) ==
    IF index
    THEN <<[k \in 1..(IF df.index = <<>> THEN 1 ELSE Len(df.index[1])) |-> ""]
             \o df.columns>>
         \o [k \in 1..Len(df.data) |->
               (IF df.index[k] = <<>> THEN <<k - 1>> ELSE df.index[k])
               \o df.data[k]]
    ELSE <<df.columns>> \o df.data

\* df.to_csv(output_path, index=False, ...)
\* (variant: index=True, the default)
to_csv_index_true == TRUE
to_csv_index == FALSE
to_csv_text(df) == CsvLines(df, to_csv_index)

\* A gzip file: the header carries the time the stream was opened, the
\* payload is the text written so far, complete is set by the trailer.
GzOpen(now) == [mtime |-> now, payload |-> <<>>, complete |-> FALSE]
GzClose(file, text) == [file EXCEPT !.payload = text, !.complete = TRUE]
\* (variant of GzTruncated: the abandoned stream is flushed and closed)
GzTruncatedFlushed(file, text, k) == GzClose(file, text)
GzTruncated(file, text, k) == [file EXCEPT !.payload = SubSeq(text, 1, k)]

\* gunzip: the text of a complete stream; a truncated stream is an error.
Decompress(file) ==
    [ok |-> file.complete, text |-> IF file.complete THEN file.payload ELSE <<>>]

\* ------------------------------------------------------- the environment
Hdr == <<"STATION", "PRCP">>

\* The texts the archive may serve.  A header names distinct, non-empty
\* columns, as the headers of the archive's daily summaries do; the fields
\* of the rows are opaque.
Bodies ==
    { <<>>,                                        \* empty response
      <<Hdr>>,                                     \* header, no rows
      <<Hdr, <<"s", "1">>>>,                       \* one full row
      <<Hdr, <<"s", "1">>, <<"s">>>>,              \* a short row
      <<Hdr, <<"0", "s", "1">>>>,                  \* an unnamed leading column
      <<Hdr, <<"s", "1">>, <<"s", "1", "2">>>>,    \* a row that is too long
      <<<<"DATE">>, <<"d">>>> }                    \* another table

DirStates == {"ok", "missing", "unwritable"}

VARIABLES
    pc,           \* the line the script is at
    i,            \* how many items of files the for loop has taken
    f, url, df, output_path,   \* the script's variables
    fs,           \* target_dir: path -> gzip file
    dirState,     \* whether target_dir exists and can be written
    clock,        \* wall clock
    trace,        \* this run's requests, opens and closes, in order
    err,          \* which step of this run raised, or None
    got,          \* the text each filename's request returned in this run
    run,          \* how many times the script has been started
    fsStart,      \* fs when this run started
    prevGot       \* got of the previous run if it ran to the end, else empty

vars == <<pc, i, f, url, df, output_path, fs, dirState, clock, trace, err,
          got, run, fsStart, prevGot>>

EmptyFn == <<>>

Init ==
    /\ pc = "for"
    /\ i = 0
    /\ f = Unbound /\ url = Unbound /\ df = NoFrame /\ output_path = Unbound
    /\ fs = EmptyFn
    /\ dirState \in DirStates
    /\ clock = 0
    /\ trace = <<>>
    /\ err = None
    /\ got = EmptyFn
    /\ run = 1
    /\ fsStart = EmptyFn
    /\ prevGot = EmptyFn

\* An exception is not caught anywhere: the interpreter exits.
\* (variant: the loop swallows the exception and goes on)
RaiseAndContinue(kind) == pc' = "for" /\ err' = kind
Raise(kind) == pc' = "error" /\ err' = kind

\* Opening a path of target_dir for writing succeeds when the directory
\* exists and is writable, whether or not the file is already there.
\* (variants: the directory is not looked at; mode "x", the file must be new)
CanOpenAlways(path) == TRUE
CanOpenExclusive(path) == dirState = "ok" /\ path \notin DOMAIN fs
CanOpen(path) == dirState = "ok"

\* for f in files:
ForNext ==
    /\ pc = "for"
    /\ IF i < Len(files)
       THEN /\ i' = i + 1
            /\ f' = Item(files, i + 1)
            /\ pc' = "url"
       ELSE /\ pc' = "done"
            /\ UNCHANGED <<i, f>>
    /\ UNCHANGED <<url, df, output_path, fs, dirState, clock, trace, err,
                   got, run, fsStart, prevGot>>

\* url = f"{base_url}/{f}"
BuildUrl ==
    /\ pc = "url"
    /\ url' = FormatUrl(base_url, f)
    /\ pc' = "read_csv"
    /\ UNCHANGED <<i, f, df, output_path, fs, dirState, clock, trace, err,
                   got, run, fsStart, prevGot>>

\* pd.read_csv(url) sends the request and blocks.
ReadCsvRequest ==
    /\ pc = "read_csv"
    /\ trace' = Append(trace, <<"GET", url>>)
    /\ pc' = "fetching"
    /\ UNCHANGED <<i, f, url, df, output_path, fs, dirState, clock, err,
                   got, run, fsStart, prevGot>>

\* The response arrives; read_csv parses it and df is assigned, or the
\* parser raises.
RespondOK ==
    /\ pc = "fetching"
    /\ \E body \in Bodies :
         /\ got' = (f :> body) @@ got
         /\ IF ParseFails(body)
            THEN Raise("parse") /\ UNCHANGED df
            ELSE /\ df' = read_csv(body)
                 /\ pc' = "path"
                 /\ UNCHANGED err
    /\ UNCHANGED <<i, f, url, output_path, fs, dirState, clock, trace,
                   run, fsStart, prevGot>>

\* The host is unreachable or answers with an error status: urlopen raises.
\* (variant: the stale destination is removed when the fetch fails)
RespondFailCleanup ==
    /\ pc = "fetching"
    /\ Raise("fetch")
    /\ fs' = [p \in DOMAIN fs \ {os_path_join(target_dir, GzName(f))} |-> fs[p]]
    /\ UNCHANGED <<i, f, url, df, output_path, dirState, clock, trace,
                   got, run, fsStart, prevGot>>
RespondFail ==
    /\ pc = "fetching"
    /\ Raise("fetch")
    /\ UNCHANGED <<i, f, url, df, output_path, fs, dirState, clock, trace,
                   got, run, fsStart, prevGot>>

\* output_path = os.path.join(target_dir, f + ".gz")
BuildPath ==
    /\ pc = "path"
    /\ output_path' = os_path_join(target_dir, GzName(f))
    /\ pc' = "to_csv"
    /\ UNCHANGED <<i, f, url, df, fs, dirState, clock, trace, err,
                   got, run, fsStart, prevGot>>

\* df.to_csv opens output_path for writing: the file is created or
\* truncated and the gzip header written; a missing or unwritable
\* directory raises before anything is created.
ToCsvOpen ==
    /\ pc = "to_csv"
    /\ IF CanOpen(output_path)
       THEN /\ fs' = (output_path :> GzOpen(clock)) @@ fs
            /\ trace' = Append(trace, <<"OPEN", output_path>>)
            /\ pc' = "writing"
            /\ UNCHANGED err
       ELSE /\ Raise("open")
            /\ UNCHANGED <<fs, trace>>
    /\ UNCHANGED <<i, f, url, df, output_path, dirState, clock,
                   got, run, fsStart, prevGot>>

\* df.to_csv writes the text and closes the stream.
ToCsvWrite ==
    /\ pc = "writing"
    /\ fs' = [fs EXCEPT ![output_path] = GzClose(@, to_csv_text(df))]
    /\ trace' = Append(trace, <<"CLOSE", output_path>>)
    /\ pc' = "for"
    /\ UNCHANGED <<i, f, url, df, output_path, dirState, clock, err,
                   got, run, fsStart, prevGot>>

\* A write raises part way (the disk is full): the stream is abandoned
\* with the lines written so far and the file stays where it is.
ToCsvWriteFail ==
    /\ pc = "writing"
    /\ \E k \in 0..(Len(to_csv_text(df)) - 1) :
         fs' = [fs EXCEPT ![output_path] = GzTruncated(@, to_csv_text(df), k)]
    /\ Raise("write")
    /\ UNCHANGED <<i, f, url, df, output_path, dirState, clock, trace,
                   got, run, fsStart, prevGot>>

Terminated == pc \in {"done", "error"}

\* The script is started again, on the directory the last run left.
Restart ==
    /\ Terminated
    /\ run < MaxRuns
    /\ run' = run + 1
    /\ pc' = "for"
    /\ i' = 0
    /\ f' = Unbound /\ url' = Unbound /\ df' = NoFrame /\ output_path' = Unbound
    /\ trace' = <<>>
    /\ err' = None
    /\ got' = EmptyFn
    /\ fsStart' = fs
    /\ prevGot' = IF pc = "done" THEN got ELSE EmptyFn
    /\ dirState' \in IF fs = EmptyFn THEN DirStates ELSE {"ok", "unwritable"}
    /\ UNCHANGED <<fs, clock>>

\* Time passes.
Tick ==
    /\ clock < MaxClock
    /\ clock' = clock + 1
    /\ UNCHANGED <<pc, i, f, url, df, output_path, fs, dirState, trace, err,
                   got, run, fsStart, prevGot>>

\* A step of the running script (the response to its request included).
Step ==
    \/ ForNext
    \/ BuildUrl
    \/ ReadCsvRequest
    \/ RespondOK
    \/ RespondFail
    \/ BuildPath
    \/ ToCsvOpen
    \/ ToCsvWrite
    \/ ToCsvWriteFail

Next ==
    \/ Step
    \/ Restart
    \/ Tick

Spec == Init /\ [][Next]_vars

\* One run of the script in which every request and every write returns
\* and the interpreter keeps running.
RunNext ==
    \/ Step
    \/ Tick

LiveSpec == Init /\ [][RunNext]_vars /\ WF_vars(Step)

\* ---------------------------------------------------------------- claims
N == Len(files)

Range(s) == {s[k] : k \in DOMAIN s}

IsPrefix(s, t) == Len(s) <= Len(t) /\ s = SubSeq(t, 1, Len(s))

\* join(target_dir, files[k] + ".gz") and base_url + "/" + files[k]
Dest(k) == target_dir \o <<OsSep>> \o files[k] \o <<".gz">>
Source(k) == base_url \o <<"/">> \o files[k]

\* The paths this run has opened for writing.
Opened == {e[2] : e \in {x \in Range(trace) : x[1] = "OPEN"}}

\* Iteration k of this run has written and closed its destination file.
Written(k) == <<"CLOSE", Dest(k)>> \in Range(trace)

\* The events of this run that concern a filename after the k-th.
Later(k) == {e \in Range(trace) : \E j \in (k + 1)..N : e[2] \in {Source(j), Dest(j)}}

\* Path p is as it was when the run started: absent, or the same file.
Untouched(p) ==
    IF p \in DOMAIN fsStart
    THEN p \in DOMAIN fs /\ fs[p] = fsStart[p]
    ELSE p \notin DOMAIN fs

\* The destination of files[k] decompresses to what iteration k wrote.
AsWritten(k) ==
    /\ Dest(k) \in DOMAIN fs
    /\ Decompress(fs[Dest(k)]) =
          [ok |-> TRUE, text |-> CsvLines(read_csv(got[files[k]]), FALSE)]

\* C1: when a run in which every fetch, parse and write succeeded finishes,
\* there is exactly one complete file at join(target_dir, f + ".gz") for each
\* of the N filenames, and the run has opened no other path.
C1_OneFilePerName ==
    pc = "done" =>
        /\ DOMAIN fs = {Dest(k) : k \in 1..N}
        /\ Cardinality(DOMAIN fs) = N
        /\ \A k \in 1..N : fs[Dest(k)].complete
        /\ Opened = {Dest(k) : k \in 1..N}
        /\ Len(trace) = 3 * N

C1_Witness == pc = "done" /\ run = 1 /\ Cardinality(DOMAIN fs) = 2

\* C2: when the fetch or the parse for files[i] fails, the run has ended
\* with an error, it has created no destination file for files[i], and no
\* later filename has been fetched or written.
C2_FetchFailureAborts ==
    err \in {"fetch", "parse"} =>
        /\ pc = "error"
        /\ ~ ENABLED Step
        /\ Dest(i) \notin Opened
        /\ Untouched(Dest(i))
        /\ Later(i) = {}
        /\ trace[Len(trace)] = <<"GET", Source(i)>>

C2_Witness == err = "parse" /\ i = 1 /\ run = 1 /\ dirState = "ok"

\* C3: in a target directory that is missing or not writable the run creates
\* no destination file, ends with an error at its first write attempt, and
\* fetches or writes no filename after the first.
C3_UnwritableDirAborts ==
    dirState # "ok" =>
        /\ fs = fsStart
        /\ Opened = {}
        /\ i <= 1
        /\ Later(1) = {}
        /\ pc \notin {"writing", "done"}
        /\ (err = "open" => pc = "error" /\ i = 1 /\ ~ ENABLED Step)
        /\ (pc = "to_csv" => i = 1 /\ ~ ENABLED (Step /\ pc' # "error"))

C3_Witness == dirState = "missing" /\ err = "open" /\ i = 1

\* C4: the events of a run are, in this order and without overlap, GET
\* base_url/A, the write of A's destination, GET base_url/B, the write of
\* B's destination.
C4_ExpectedTrace ==
    << <<"GET", <<"https://www.ncei.noaa.gov/data/daily-summaries/access",
                  "/", "USW00094847.csv">>>>,
       <<"OPEN", Dest(1)>>, <<"CLOSE", Dest(1)>>,
       <<"GET", <<"https://www.ncei.noaa.gov/data/daily-summaries/access",
                  "/", "USW00012839.csv">>>>,
       <<"OPEN", Dest(2)>>, <<"CLOSE", Dest(2)>> >>

C4_SequentialInOrder ==
    /\ IsPrefix(trace, C4_ExpectedTrace)
    /\ (pc = "fetching" => trace[Len(trace)] = <<"GET", Source(i)>>)
    /\ (pc = "writing" => trace[Len(trace)] = <<"OPEN", Dest(i)>>)

C4_Witness == trace = C4_ExpectedTrace

\* C5 as stated: a failure at any step of iteration i leaves no file at the
\* destination of files[i], and every earlier destination as it was written.
C5_Original ==
    err # None =>
        /\ Dest(i) \notin DOMAIN fs
        /\ \A j \in 1..(i - 1) : AsWritten(j)

\* C5 amended: a failure of the fetch, the parse or the open of iteration i
\* leaves the destination of files[i] as it was when the run started; a write
\* that fails after it has started leaves a truncated gzip file there; every
\* earlier destination is as its iteration wrote it.
C5_FailureLeavesTruncatedFile ==
    err # None =>
        /\ err \in {"fetch", "parse", "open"} => Untouched(Dest(i))
        /\ err = "write" =>
              /\ Dest(i) \in DOMAIN fs
              /\ ~ fs[Dest(i)].complete
              /\ IsPrefix(fs[Dest(i)].payload, CsvLines(read_csv(got[files[i]]), FALSE))
        /\ \A j \in 1..(i - 1) : AsWritten(j)

C5_Witness ==
    /\ err = "write" /\ i = 2 /\ run = 1
    /\ fs[Dest(2)].payload = <<Hdr>>
    /\ fs[Dest(1)].complete

C7_Original ==
    /\ (err = "open" => dirState # "ok")
    /\ (pc = "done" /\ prevGot = got) => fs = fsStart

\* C7 amended: opening a destination that exists never raises, and a second
\* complete run that fetched the same texts leaves the same set of files,
\* each decompressing to the same text (the gzip header's time may differ).
C7_RerunSameText ==
    /\ (err = "open" => dirState # "ok")
    /\ (pc = "done" /\ prevGot = got) =>
          /\ DOMAIN fs = DOMAIN fsStart
          /\ \A p \in DOMAIN fs : Decompress(fs[p]) = Decompress(fsStart[p])

C7_Witness ==
    /\ pc = "done" /\ prevGot = got
    /\ \E p \in DOMAIN fs : fs[p].mtime # fsStart[p].mtime

\* C8: in a run every request and every write happens at most once; a run
\* whose requests and writes all return ends; while a request has not
\* returned nothing else of the run happens.
C8_AtMostOnce ==
    \A k \in DOMAIN trace, j \in DOMAIN trace : trace[k] = trace[j] => k = j

C8_Blocked ==
    (pc = "fetching" /\ ~ (RespondOK \/ RespondFail)) =>
        UNCHANGED <<pc, i, fs, trace, err>>

C8_SinglePassTerminates ==
    /\ [] C8_AtMostOnce
    /\ [][C8_Blocked]_vars
    /\ (~ Terminated) ~> Terminated

C8_Witness == pc = "done" /\ Len(trace) = 6 /\ clock = 1

\* C9: the destination file of files[k] exists only if the destination files
\* of all earlier filenames exist (the directory starts empty).
C9_WrittenIsPrefix ==
    \A k \in 1..N : Dest(k) \in DOMAIN fs => \A j \in 1..(k - 1) : Dest(j) \in DOMAIN fs

C9_Witness == err = "fetch" /\ i = 2 /\ Dest(1) \in DOMAIN fs /\ Dest(2) \notin DOMAIN fs

\* C10: the destination of files[i] and of every later filename is not
\* touched before the fetch and parse of files[i] have succeeded, so after a
\* failed fetch or parse they are as the run found them; no step deletes a file.
C10_NotOpenedYet ==
    (pc \in {"url", "read_csv", "fetching", "path", "to_csv"}
        \/ err \in {"fetch", "parse"}) =>
        \A k \in i..N : Untouched(Dest(k))

C10_FetchFirstNoDelete ==
    /\ [] C10_NotOpenedYet
    /\ [][DOMAIN fs \subseteq DOMAIN fs']_vars

C10_Witness ==
    /\ err = "fetch" /\ i = 1
    /\ Dest(1) \in DOMAIN fsStart /\ Dest(2) \in DOMAIN fsStart
    /\ fsStart[Dest(1)].complete

====
